---- MODULE Spec2Model ----
(***************************************************************************)
(* A model of the stock-assistant orchestration core:                      *)
(*   - the conversation state machine of backend/agent.py                  *)
(*     (agent / tools / fallback / end, with its two caps),                *)
(*   - the context-window trimming of trim_message_history,                *)
(*   - the period correction of backend/tools.py,                          *)
(*   - the ticker-keyed client cache get_company_client, used one call at  *)
(*     a time and by several threads at once,                              *)
(*   - the retry loop CompanyData.safe_get of backend.py and the data      *)
(*     tools of backend/tools.py over it,                                  *)
(*   - truncate_tool_output of backend/tools.py,                           *)
(*   - CompanyData.get_ticker_data of backend.py and                       *)
(*     extract_stock_mentions of backend/tools.py, one call each,          *)
(*   - the checkpoint database and clear_thread_checkpoints of             *)
(*     backend/database.py,                                                *)
(*   - the chat sessions of app.py on the server's event loop.             *)
(* Each component has its own next-state relation and specification; the   *)
(* variables of the other components stay at their initial values.         *)
(***************************************************************************)
EXTENDS Integers, Sequences, FiniteSets, TLC

VARIABLES
    \* ---- conversation state machine (backend/agent.py) ----
    messages,          \* AgentState["messages"] of the thread, checkpointed
    pc,                \* node the graph is at: idle, agent, route, tools, fallback, end
    turns,             \* turns started on the thread
    modelCalls,        \* model invocations of the current turn
    toolDispatches,    \* tool invocations of the current turn
    decision,          \* what should_continue returned last
    response_content,  \* what run_financial_agent returned last
    metadata,          \* the metadata it returned with it
    run_raised,        \* whether the last run_financial_agent ended in an exception
    audit,             \* what the last run did with the audit sink
    \* ---- trim_message_history (backend/agent.py) ----
    tm_messages,       \* the history handed to trim_message_history
    tm_max_tokens,     \* its max_tokens argument
    tm_trimmed,        \* the list it returned
    tm_returned,       \* whether it has returned for tm_messages
    tm_dropped,        \* the number its "Trimmed ... messages" line printed, 0: no line
    tm_invocations,    \* the calls of model_with_tools.invoke so far
    \* ---- correct_period_parameter (backend/tools.py) ----
    cp_invalid_period, \* the argument of the last call
    cp_llm_asked,      \* whether that call invoked the correction model
    cp_llm_content,    \* the content the correction model answered with
    cp_result,         \* what the call returned
    cp_returned,       \* whether a call has returned
    \* ---- get_company_client (backend/tools.py, agent.py) ----
    company_cache,     \* _company_cache: uppercased ticker -> client
    clients_made,      \* the CompanyData instances constructed, in order
    gcc_pc,            \* per thread: where its call of get_company_client is
    gcc_arg,           \* per thread: the ticker argument of its call
    gcc_ticker,        \* per thread: the local ticker after upper()
    gcc_new,           \* per thread: the instance it constructed, not yet stored
    gcc_log,           \* the calls that returned: argument and instance returned
    \* ---- CompanyData.safe_get (backend.py) ----
    sg_pc,             \* idle, loop (inside the for loop) or returned
    sg_attr_name,      \* the attribute asked for
    sg_i,              \* the loop variable i
    sg_log,            \* what each attempt made so far got from yfinance
    sg_result,         \* the value returned
    \* ---- the data tools (backend/tools.py) over CompanyData (backend.py) ----
    tool_name,         \* the data tool ToolNode invoked last
    tool_pc,           \* idle, called (inside the tool), returned or raised
    tool_out,          \* what the tool call ended with: a value or an exception
    \* ---- truncate_tool_output (backend/tools.py) ----
    tt_text,           \* the text argument of the last call
    tt_max_tokens,     \* its max_tokens argument
    tt_out,            \* the string returned: its text and its marker
    tt_returned,       \* whether a call has returned
    \* ---- the checkpoint database (backend/agent.py, backend/database.py) ----
    ckpt_table,        \* whether the table checkpoints exists
    ckpt_rows,         \* its rows: thread_id, checkpoint_id, messages
    store_ops,         \* turns and resets run against the database so far
    cl_thread_id,      \* the argument of the last clear_thread_checkpoints
    cl_raised,         \* whether that call ended with an exception
    \* ---- the chat sessions of the web application (app.py) ----
    loop_running,      \* the session whose handler holds the event loop, 0: none
    h_pc,              \* per session: where its message handler main is
    h_loaded,          \* per session: the history its turn loaded
    \* ---- CompanyData.get_ticker_data (backend.py) ----
    td_period,         \* the period argument of the last call
    td_interval,       \* its interval argument
    td_data,           \* what safe_get returned to it
    td_history_calls,  \* the calls of self.company.history it made
    td_out,            \* what the call ended with: a value or an exception
    td_returned,       \* whether a call has ended
    \* ---- extract_stock_mentions (backend/tools.py) ----
    ex_symbols,        \* result.symbols, as the extraction model answered
    ex_companies,      \* result.companies
    ex_listed,         \* the company names the symbol search finds
    ex_out,            \* what the call returned or raised
    ex_returned        \* whether a call has ended

turnVars == <<messages, pc, turns, modelCalls, toolDispatches, decision,
              response_content, metadata, run_raised, audit>>

trimVars == <<tm_messages, tm_max_tokens, tm_trimmed, tm_returned, tm_dropped,
              tm_invocations>>

periodVars == <<cp_invalid_period, cp_llm_asked, cp_llm_content, cp_result,
                cp_returned>>

cacheVars == <<company_cache, clients_made, gcc_pc, gcc_arg, gcc_ticker, gcc_new,
               gcc_log>>

dataToolVars == <<tool_name, tool_pc, tool_out>>

fetchVars == <<sg_pc, sg_attr_name, sg_i, sg_log, sg_result, dataToolVars>>

truncVars == <<tt_text, tt_max_tokens, tt_out, tt_returned>>

storeVars == <<ckpt_table, ckpt_rows, store_ops, cl_thread_id, cl_raised>>

sessionVars == <<loop_running, h_pc, h_loaded>>

tickerDataVars == <<td_period, td_interval, td_data, td_history_calls, td_out, td_returned>>

extractVars == <<ex_symbols, ex_companies, ex_listed, ex_out, ex_returned>>

vars == <<turnVars, trimVars, periodVars, cacheVars, fetchVars, truncVars,
          storeVars, sessionVars,
          tickerDataVars,
          extractVars>>

\* What the actions of one component leave unchanged.
nonTurnVars == <<trimVars, periodVars, cacheVars, fetchVars, truncVars, storeVars,
                 sessionVars,
        tickerDataVars,
        extractVars>>
nonTrimVars == <<turnVars, periodVars, cacheVars, fetchVars, truncVars, storeVars,
                 sessionVars,
        tickerDataVars,
        extractVars>>
nonPeriodVars == <<turnVars, trimVars, cacheVars, fetchVars, truncVars, storeVars,
                 sessionVars,
        tickerDataVars,
        extractVars>>
nonCacheVars == <<turnVars, trimVars, periodVars, fetchVars, truncVars, storeVars,
                 sessionVars,
        tickerDataVars,
        extractVars>>
nonFetchVars == <<turnVars, trimVars, periodVars, cacheVars, truncVars, storeVars,
                 sessionVars,
        tickerDataVars,
        extractVars>>
nonTruncVars == <<turnVars, trimVars, periodVars, cacheVars, fetchVars, storeVars,
                 sessionVars,
        tickerDataVars,
        extractVars>>
nonStoreVars == <<turnVars, trimVars, periodVars, cacheVars, fetchVars, truncVars,
                  sessionVars,
        tickerDataVars,
        extractVars>>
nonSessionVars == <<turnVars, trimVars, periodVars, cacheVars, fetchVars, truncVars,
        tickerDataVars,
        extractVars>>
nonTickerDataVars == <<turnVars, trimVars, periodVars, cacheVars, fetchVars, truncVars,
        storeVars, sessionVars,
        extractVars>>
nonExtractVars == <<turnVars, trimVars, periodVars, cacheVars, fetchVars, truncVars,
        storeVars, sessionVars, tickerDataVars>>

(***************************************************************************)
(* Bounds of the model.                                                    *)
(***************************************************************************)
MaxTurns == 2
MaxHistLen == 6
MaxBudget == 24
MaxRequests == 4
NumThreads == 2
MaxTextLen == 4
MaxTokenBudget == 3
MaxStoreOps == 4
NumSessions == 3
MaxMentions == 21
MaxLiveTurns == 1

(***************************************************************************)
(* Sequence helpers.                                                       *)
(***************************************************************************)
Last(s) == s[Len(s)]

RECURSIVE SumLens(_)
\* sum(len(m.tool_calls) for m in messages if m.tool_calls)
SumLens(s) ==
    IF s = <<>> THEN 0
    ELSE Len(Head(s).tool_calls) + SumLens(Tail(s))

RECURSIVE CountType(_, _)
\* sum(1 for m in messages if m.type == t)
CountType(s, t) ==
    IF s = <<>> THEN 0
    ELSE (IF Head(s).type = t THEN 1 ELSE 0) + CountType(Tail(s), t)

(***************************************************************************)
(* Messages.  type is langchain's message type tag; tool_calls is the      *)
(* ordered list of call ids an AI message requests (empty for every other  *)
(* message); tool_call_id is the call a Tool message answers (0: none).    *)
(***************************************************************************)
SystemPrompt == "You are a financial analysis assistant."
UserQuery    == "user_query"
AIText       == "ai_response"
ToolText     == "tool_result"
FallbackText == "I'm sorry, I wasn't able to find a confident answer for your query."

SystemMessage(c) ==
    [type |-> "system", content |-> c, tool_calls |-> <<>>, tool_call_id |-> 0]

HumanMessage(c) ==
    [type |-> "human", content |-> c, tool_calls |-> <<>>, tool_call_id |-> 0]

AIMessage(calls) ==
    [type |-> "ai", content |-> AIText, tool_calls |-> calls, tool_call_id |-> 0]

ToolMessage(id) ==
    [type |-> "tool", content |-> ToolText, tool_calls |-> <<>>, tool_call_id |-> id]

(***************************************************************************)
(* should_continue, backend/agent.py 81-105.                               *)
(***************************************************************************)
LlmCallCap  == 20
ToolCallCap == 50

\* Variant: every message counted, the type filter forgotten.
llm_calls_unfiltered(msgs) == Len(msgs)

\* Variant: only the AI messages after the latest human message counted.
llm_calls_this_turn(msgs) ==
    LET humans == {i \in DOMAIN msgs : msgs[i].type = "human"}
        latest == IF humans = {} THEN 0
                  ELSE CHOOSE i \in humans : \A j \in humans : j <= i
    IN  CountType(SubSeq(msgs, latest + 1, Len(msgs)), "ai")

llm_calls(msgs) == CountType(msgs, "ai")

\* Variant: the requests of the latest message left out of the sum.
total_tool_calls_without_latest(msgs) == SumLens(SubSeq(msgs, 1, Len(msgs) - 1))

total_tool_calls(msgs) == SumLens(msgs)

\* Variant: the call cap compared with > instead of >=.
should_continue_cap_gt(msgs) ==
    IF llm_calls(msgs) > LlmCallCap THEN "fallback"
    ELSE IF Last(msgs).tool_calls # <<>>
         THEN IF total_tool_calls(msgs) >= ToolCallCap THEN "fallback"
              ELSE "tools"
         ELSE "end"

\* Variant: the tool branch taken on hasattr(last_message, "tool_calls") alone.
should_continue_hasattr_only(msgs) ==
    IF llm_calls(msgs) >= LlmCallCap THEN "fallback"
    ELSE IF Last(msgs).type = "ai"
         THEN IF total_tool_calls(msgs) >= ToolCallCap THEN "fallback"
              ELSE "tools"
         ELSE "end"

should_continue(msgs) ==
    IF llm_calls(msgs) >= LlmCallCap THEN "fallback"
    ELSE IF Last(msgs).tool_calls # <<>>
         THEN IF total_tool_calls(msgs) >= ToolCallCap THEN "fallback"
              ELSE "tools"
         ELSE "end"

\* fallback_response, backend/agent.py 107-113: the update it returns.
fallback_response == <<SystemMessage(FallbackText)>>

(***************************************************************************)
(* The numbers of tool calls one model response may request.  The model    *)
(* service is external: every response is possible whatever the input.     *)
(***************************************************************************)
ToolCallChoices == {0, 1, 25, 50}

\* The response of the model: an AI message with k fresh call ids.
ModelResponse(msgs, k) ==
    AIMessage([j \in 1..k |-> SumLens(msgs) + j])

(***************************************************************************)
(* Initial state: no checkpoint for the thread, nothing running.           *)
(***************************************************************************)
NoMetadata == [llm_calls |-> 0, tool_calls |-> 0]

NoAudit == [enable_logging |-> FALSE, failed_at |-> "none", logged |-> FALSE]

TurnInit ==
    /\ messages = <<>>
    /\ pc = "idle"
    /\ turns = 0
    /\ modelCalls = 0
    /\ toolDispatches = 0
    /\ decision = "none"
    /\ response_content = "none"
    /\ metadata = NoMetadata
    /\ run_raised = FALSE
    /\ audit = NoAudit

\* No call of trim_message_history yet.
TrimInit ==
    /\ tm_messages = <<>>
    /\ tm_max_tokens = 0
    /\ tm_trimmed = <<>>
    /\ tm_returned = FALSE
    /\ tm_dropped = 0
    /\ tm_invocations = 0

\* No call of correct_period_parameter yet.
PeriodInit ==
    /\ cp_invalid_period = <<>>
    /\ cp_llm_asked = FALSE
    /\ cp_llm_content = <<>>
    /\ cp_result = <<>>
    /\ cp_returned = FALSE

Threads == 1..NumThreads

NoClient == [id |-> 0, ticker_symbol |-> <<>>]

\* tools.py 14: _company_cache = {}, no call running.
CacheInit ==
    /\ company_cache = <<>>
    /\ clients_made = <<>>
    /\ gcc_pc = [th \in Threads |-> "idle"]
    /\ gcc_arg = [th \in Threads |-> <<>>]
    /\ gcc_ticker = [th \in Threads |-> <<>>]
    /\ gcc_new = [th \in Threads |-> NoClient]
    /\ gcc_log = <<>>

\* No call of safe_get yet.
FetchInit ==
    /\ sg_pc = "idle"
    /\ sg_attr_name = "none"
    /\ sg_i = 0
    /\ sg_log = <<>>
    /\ sg_result = "none"
    /\ tool_name = "none"
    /\ tool_pc = "idle"
    /\ tool_out = "none"

NoMarker == [from |-> -1, to |-> -1]

\* No call of truncate_tool_output yet.
TruncInit ==
    /\ tt_text = <<>>
    /\ tt_max_tokens = 0
    /\ tt_out = [text |-> <<>>, marker |-> NoMarker]
    /\ tt_returned = FALSE

\* A new database file: SqliteSaver creates its tables on first use.
StoreInit ==
    /\ ckpt_table = FALSE
    /\ ckpt_rows = {}
    /\ store_ops = 0
    /\ cl_thread_id = "none"
    /\ cl_raised = FALSE

Sessions == 1..NumSessions

\* The chat sessions are started, no message is being handled.
SessionInit ==
    /\ loop_running = 0
    /\ h_pc = [s \in Sessions |-> "idle"]
    /\ h_loaded = [s \in Sessions |-> <<>>]

\* No call of get_ticker_data yet.
\* No call of extract_stock_mentions yet.
ExtractInit ==
    /\ ex_symbols = <<>>
    /\ ex_companies = <<>>
    /\ ex_listed = {}
    /\ ex_out = [kind |-> "none"]
    /\ ex_returned = FALSE

TickerDataInit ==
    /\ td_period = <<>>
    /\ td_interval = "none"
    /\ td_data = "none"
    /\ td_history_calls = <<>>
    /\ td_out = "none"
    /\ td_returned = FALSE

Init ==
    /\ TurnInit
    /\ TrimInit
    /\ PeriodInit
    /\ CacheInit
    /\ FetchInit
    /\ TruncInit
    /\ StoreInit
    /\ SessionInit
    /\ TickerDataInit
    /\ ExtractInit

(***************************************************************************)
(* run_financial_agent 165-172: app.invoke on the thread.  The add_messages*)
(* reducer appends the two initial messages to the checkpointed history;   *)
(* the graph starts at its entry point, agent.                             *)
(***************************************************************************)
StartTurn ==
    /\ pc = "idle"
    /\ turns < MaxTurns
    /\ messages' = messages \o <<SystemMessage(SystemPrompt), HumanMessage(UserQuery)>>
    /\ pc' = "agent"
    /\ turns' = turns + 1
    /\ modelCalls' = 0
    /\ toolDispatches' = 0
    /\ decision' = "none"
    /\ run_raised' = FALSE
    /\ audit' = NoAudit
    /\ UNCHANGED <<response_content, metadata, nonTurnVars>>

(***************************************************************************)
(* call_model 65-79: the node returns {"messages": [response]}, which the  *)
(* reducer appends.  The trimmed list is a local handed to the model only. *)
(***************************************************************************)
call_model(k) ==
    /\ pc = "agent"
    /\ messages' = Append(messages, ModelResponse(messages, k))
    /\ modelCalls' = modelCalls + 1
    /\ pc' = "route"
    /\ UNCHANGED <<turns, toolDispatches, decision, response_content, metadata,
                   run_raised, audit, nonTurnVars>>

AgentStep == \E k \in ToolCallChoices : call_model(k)

(***************************************************************************)
(* The conditional edge after agent, create_financial_agent 139-143.       *)
(***************************************************************************)
Route ==
    /\ pc = "route"
    /\ decision' = should_continue(messages)
    /\ pc' = decision'
    /\ UNCHANGED <<messages, turns, modelCalls, toolDispatches, response_content,
                   metadata, run_raised, audit, nonTurnVars>>

\* Variant: the Tool messages come in the order the calls complete, last first.
ToolsStep_completion_order ==
    /\ pc = "tools"
    /\ LET calls == Last(messages).tool_calls
       IN /\ messages' = messages \o
                 [j \in 1..Len(calls) |-> ToolMessage(calls[Len(calls) + 1 - j])]
          /\ toolDispatches' = toolDispatches + Len(calls)
    /\ pc' = "agent"
    /\ UNCHANGED <<turns, modelCalls, decision, response_content, metadata,
                   run_raised, audit, nonTurnVars>>

(***************************************************************************)
(* ToolNode(tools), create_financial_agent 135 and 144: one Tool message   *)
(* per call of the latest AI message, in request order, then back to agent.*)
(***************************************************************************)
ToolsStep ==
    /\ pc = "tools"
    /\ LET calls == Last(messages).tool_calls
       IN /\ messages' = messages \o [j \in 1..Len(calls) |-> ToolMessage(calls[j])]
          /\ toolDispatches' = toolDispatches + Len(calls)
    /\ pc' = "agent"
    /\ UNCHANGED <<turns, modelCalls, decision, response_content, metadata,
                   run_raised, audit, nonTurnVars>>

(***************************************************************************)
(* The fallback node, create_financial_agent 136 and 145.                  *)
(***************************************************************************)
\* Variant: the fallback node wired back to agent instead of END.
FallbackStep_to_agent ==
    /\ pc = "fallback"
    /\ messages' = messages \o fallback_response
    /\ pc' = "agent"
    /\ UNCHANGED <<turns, modelCalls, toolDispatches, decision, response_content, metadata,
                   run_raised, audit, nonTurnVars>>

FallbackStep ==
    /\ pc = "fallback"
    /\ messages' = messages \o fallback_response
    /\ pc' = "end"
    /\ UNCHANGED <<turns, modelCalls, toolDispatches, decision, response_content, metadata,
                   run_raised, audit, nonTurnVars>>

(***************************************************************************)
(* run_financial_agent 173-206: the content of the last message of the     *)
(* result is the answer, metadata counts the model calls of the run and the *)
(* tool calls of the result; with logging enabled the run is then written   *)
(* to the audit sink, inside one try statement.                             *)
(***************************************************************************)
\* The steps on the audit sink (198-203, backend/database.py 11-102): each
\* can fail with an exception.
SinkSteps == {"init", "connect", "write", "close"}

\* Variant: the Logger is constructed before the try statement.
try_logging_after_init(enable_logging, fails_at) ==
    [logged |-> enable_logging /\ fails_at \in {"none", "close"},
     raised |-> enable_logging /\ fails_at = "init"]

\* agent.py 198-205: the row is written when construction, connection and
\* write succeed; `except Exception` lets nothing through.
try_logging(enable_logging, fails_at) ==
    [logged |-> enable_logging /\ fails_at \in {"none", "close"},
     raised |-> FALSE]

Finish ==
    /\ pc = "end"
    /\ \E enable_logging \in BOOLEAN, fails_at \in SinkSteps \cup {"none"} :
          LET done == try_logging(enable_logging, fails_at)
          IN /\ audit' = [enable_logging |-> enable_logging,
                          failed_at |-> IF enable_logging THEN fails_at ELSE "none",
                          logged |-> done.logged]
             /\ run_raised' = done.raised
             /\ IF done.raised
                THEN UNCHANGED <<response_content, metadata>>
                ELSE /\ response_content' = Last(messages).content
                     /\ metadata' = [llm_calls |-> modelCalls,
                                     tool_calls |-> SumLens(messages)]
    /\ pc' = "idle"
    /\ UNCHANGED <<messages, turns, modelCalls, toolDispatches, decision, nonTurnVars>>

Next ==
    \/ StartTurn
    \/ AgentStep
    \/ Route
    \/ ToolsStep
    \/ FallbackStep
    \/ Finish

Spec == Init /\ [][Next]_vars

(***************************************************************************)
(* The graph run to completion: app.invoke (agent.py 166) drives the graph *)
(* until END, so a node that is enabled is eventually run; every model     *)
(* call and every tool dispatch is taken to return.  A new turn is started *)
(* by the user, and nothing says one will be.                              *)
(***************************************************************************)
StartLiveTurn == turns < MaxLiveTurns /\ StartTurn

NextLive ==
    \/ StartLiveTurn
    \/ AgentStep
    \/ Route
    \/ ToolsStep
    \/ FallbackStep
    \/ Finish

SpecLive ==
    /\ Init /\ [][NextLive]_vars
    /\ WF_vars(AgentStep)
    /\ WF_vars(Route)
    /\ WF_vars(ToolsStep)
    /\ WF_vars(FallbackStep)
    /\ WF_vars(Finish)

(***************************************************************************)
(* Claims about the routing decision.  Routed holds in the states reached  *)
(* by Route in which messages is still the history the decision was taken  *)
(* on.                                                                     *)
(***************************************************************************)
\* The AI-authored messages of a history, counted by position.
AIMessages(h) == Cardinality({i \in DOMAIN h : h[i].type = "ai"})

\* The call ids requested anywhere in a history (ids are never reused).
ToolCallRequests(h) ==
    Cardinality(UNION {{<<i, j>> : j \in DOMAIN h[i].tool_calls} : i \in DOMAIN h})

Routed ==
    \/ pc \in {"tools", "fallback"}
    \/ pc = "end" /\ decision = "end"

\* C1: with at least 20 AI messages in the history the decision after an
\* agent step is fallback, whatever the latest message requests and whatever
\* the cumulative number of tool-call requests.
C1_FallbackAtCallCap ==
    (Routed /\ AIMessages(messages) >= 20)
        => (decision = "fallback" /\ pc = "fallback")

C1_Witness ==
    /\ pc = "fallback"
    /\ AIMessages(messages) >= 20
    /\ Last(messages).tool_calls # <<>>
    /\ ToolCallRequests(messages) < 50

\* C2: when the latest AI message requests tool calls and the requests summed
\* over the whole history, the latest included, are at least 50, the decision
\* is fallback and not tools.
C2_FallbackAtToolCap ==
    (Routed /\ Last(messages).tool_calls # <<>>
            /\ ToolCallRequests(messages) >= 50)
        => (decision = "fallback" /\ pc # "tools")

C2_Witness ==
    /\ pc = "fallback"
    /\ AIMessages(messages) < 20
    /\ Last(messages).tool_calls # <<>>
    /\ ToolCallRequests(messages) >= 50
    /\ Len(Last(messages).tool_calls) < 50

\* C3: when the latest message requests tool calls, with fewer than 20 AI
\* messages and fewer than 50 cumulative requests, the decision is tools.
C3_ToolsUnderCaps ==
    (Routed /\ Last(messages).tool_calls # <<>>
            /\ AIMessages(messages) < 20
            /\ ToolCallRequests(messages) < 50)
        => (decision = "tools" /\ pc = "tools")

C3_Witness ==
    /\ pc = "tools"
    /\ AIMessages(messages) = 19
    /\ ToolCallRequests(messages) = 43

\* C4: when the latest message requests no tool call and neither cap is
\* reached (fewer than 20 AI messages, fewer than 50 cumulative requests),
\* the decision is end: the turn stops without entering tools or fallback.
C4_EndWithoutToolCalls ==
    (Routed /\ Last(messages).tool_calls = <<>>
            /\ AIMessages(messages) < 20
            /\ ToolCallRequests(messages) < 50)
        => (decision = "end" /\ pc = "end")

C4_Witness ==
    /\ pc = "end"
    /\ decision = "end"
    /\ Last(messages).type = "ai"
    /\ Last(messages).tool_calls = <<>>
    /\ AIMessages(messages) = 19

\* C5: the fallback step appends exactly one message, carrying the fixed
\* advisory text, calls neither the model nor a tool and leads to end only;
\* the turn then returns the advisory text as its answer.
C5_FallbackStepAndAnswer ==
    [][ /\ pc = "fallback" =>
            /\ Len(messages') = Len(messages) + 1
            /\ SubSeq(messages', 1, Len(messages)) = messages
            /\ Last(messages').content = FallbackText
            /\ modelCalls' = modelCalls
            /\ toolDispatches' = toolDispatches
            /\ pc' = "end"
        /\ (pc = "end" /\ decision = "fallback") =>
            /\ response_content' = FallbackText
            /\ pc' = "idle" ]_vars

C5_Witness ==
    /\ pc = "idle"
    /\ decision = "fallback"
    /\ response_content = FallbackText
    /\ Last(messages).content = FallbackText

C28_FallbackAbsorbing ==
    (turns > 0 /\ AIMessages(messages) - modelCalls >= 20) =>
        /\ pc = "agent" => modelCalls = 0
        /\ pc # "agent" => modelCalls = 1
        /\ pc # "tools"
        /\ toolDispatches = 0
        /\ pc \in {"fallback", "end", "idle"} => decision = "fallback"
        /\ pc = "idle" => response_content = FallbackText

\* The second turn of a thread whose first turn reached 20 AI messages: one
\* model call, which requested a tool call, and the fallback answer.
C28_Witness ==
    /\ turns = 2
    /\ pc = "idle"
    /\ modelCalls = 1
    /\ AIMessages(messages) = 21
    /\ messages[Len(messages) - 1].tool_calls # <<>>
    /\ decision = "fallback"
    /\ response_content = FallbackText

\* The Tool messages of a history.
ToolMessages(h) == Cardinality({i \in DOMAIN h : h[i].type = "tool"})

\* C29: a history never holds more than 49 Tool messages: the tools step is
\* taken only when the tool-call requests of the whole history, the pending
\* ones included, are fewer than 50, so none of the calls of an AI message
\* that requests 50 or more is dispatched.
C29_AtMost49ToolMessages ==
    /\ ToolMessages(messages) <= 49
    /\ pc = "tools" => ToolCallRequests(messages) < 50
    /\ (messages # <<>> /\ Len(Last(messages).tool_calls) >= 50) => pc # "tools"
    /\ \A i \in DOMAIN messages :
          Len(messages[i].tool_calls) >= 50
              => (i = Len(messages) \/ messages[i + 1].type # "tool")

\* Twenty-five calls dispatched, then an AI message requesting 50 at once:
\* the decision is fallback and none of the 50 is dispatched.
C29_Witness ==
    /\ pc = "idle"
    /\ ToolMessages(messages) = 25
    /\ Len(messages[Len(messages) - 1].tool_calls) = 50
    /\ Last(messages).content = FallbackText
    /\ ToolCallRequests(messages) = 75

\* C17: the tools step extends the history by exactly one Tool message per
\* tool-call request of the latest AI message, in request order, each carrying
\* the id of its call, and always leads back to agent.  No other step adds a
\* Tool message and no step changes or removes a message, so in every
\* reachable history each Tool message references a call id that an earlier AI
\* message emitted.
C17_ToolsStepAnswersEachCall ==
    /\ [][pc = "tools" =>
            LET n == Len(messages)
                requests == messages[n].tool_calls
            IN /\ messages[n].type = "ai"
               /\ Len(messages') = n + Len(requests)
               /\ \A i \in 1..n : messages'[i] = messages[i]
               /\ \A j \in 1..Len(requests) :
                     /\ messages'[n + j].type = "tool"
                     /\ messages'[n + j].tool_call_id = requests[j]
               /\ pc' = "agent"]_vars
    /\ [][pc # "tools" =>
            /\ Len(messages') >= Len(messages)
            /\ SubSeq(messages', 1, Len(messages)) = messages
            /\ \A i \in (Len(messages) + 1)..Len(messages') :
                  messages'[i].type # "tool"]_vars

\* After a tools step that answered 25 requests.
C17_Witness ==
    /\ pc = "agent"
    /\ Len(messages) >= 28
    /\ messages[Len(messages)].type = "tool"
    /\ messages[Len(messages) - 25].type = "ai"
    /\ Len(messages[Len(messages) - 25].tool_calls) = 25
    /\ messages[Len(messages)].tool_call_id = messages[Len(messages) - 25].tool_calls[25]

\* C16: when the audit sink fails at any step (construction, connection, write,
\* close) with logging enabled, run_financial_agent still returns the answer
\* and metadata of the run, the pair it returns with logging disabled, and no
\* exception reaches its caller.
C16_SinkFailureDoesNotChangeResult ==
    (pc = "idle" /\ turns > 0) =>
        /\ ~run_raised
        /\ response_content = messages[Len(messages)].content
        /\ metadata = [llm_calls |-> modelCalls,
                       tool_calls |-> ToolCallRequests(messages)]

C16_Witness ==
    /\ pc = "idle"
    /\ audit.enable_logging
    /\ audit.failed_at = "connect"
    /\ ~audit.logged
    /\ ~run_raised
    /\ response_content = AIText
    /\ metadata = [llm_calls |-> 2, tool_calls |-> 1]

(***************************************************************************)
(* trim_message_history, backend/agent.py 46-63: langchain's trim_messages *)
(* with strategy="last", include_system=True, allow_partial=False,         *)
(* start_on="human" and the chat model as token counter.                   *)
(*                                                                         *)
(* A message is seen here through what trimming reads: its type, its       *)
(* size in tokens and its identity (id: its position in the history).      *)
(***************************************************************************)
MsgTokenChoices == {4, 8}

TokMessage(t, n, i, calls) ==
    [type |-> t, tokens |-> n, id |-> i, has_calls |-> calls]

RECURSIVE SumTokens(_)
SumTokens(s) ==
    IF s = <<>> THEN 0 ELSE Head(s).tokens + SumTokens(Tail(s))

\* get_num_tokens_from_messages: the messages' tokens plus the 3 tokens that
\* prime the reply.
ReplyPrimerTokens == 3

token_counter(msgs) == SumTokens(msgs) + ReplyPrimerTokens

Reverse(s) == [i \in 1..Len(s) |-> s[Len(s) + 1 - i]]

RangeOf(s) == {s[i] : i \in DOMAIN s}

MaxOf(S) == CHOOSE x \in S : \A y \in S : y <= x

\* The search of _first_max_tokens: the largest idx >= 1 whose prefix fits,
\* 0 when no prefix does.
MaxPrefix(msgs, max_tokens) ==
    MaxOf({0} \cup {i \in 1..Len(msgs) :
                        token_counter(SubSeq(msgs, 1, i)) <= max_tokens})

\* Variant: start_on is not applied.
PopUntilType_off(msgs, end_on) == msgs

RECURSIVE PopUntilType(_, _)
\* while idx > 0 and messages[idx - 1] is not of type end_on: idx -= 1
PopUntilType(msgs, end_on) ==
    IF msgs = <<>> \/ Last(msgs).type = end_on THEN msgs
    ELSE PopUntilType(SubSeq(msgs, 1, Len(msgs) - 1), end_on)

\* Variant: a prefix fits only when it stays below max_tokens.
first_max_tokens_below(msgs, max_tokens, end_on) ==
    IF msgs = <<>> THEN <<>>
    ELSE PopUntilType(
             SubSeq(msgs, 1,
                    MaxOf({0} \cup {i \in 1..Len(msgs) :
                               token_counter(SubSeq(msgs, 1, i)) < max_tokens})),
             end_on)

first_max_tokens(msgs, max_tokens, end_on) ==
    IF msgs = <<>> THEN <<>>
    ELSE IF token_counter(msgs) <= max_tokens THEN PopUntilType(msgs, end_on)
    ELSE PopUntilType(SubSeq(msgs, 1, MaxPrefix(msgs, max_tokens)), end_on)

last_max_tokens(msgs, max_tokens) ==
    IF msgs = <<>> THEN <<>>
    ELSE LET include_system == msgs[1].type = "system"
             rest == IF include_system THEN Tail(msgs) ELSE msgs
             system_tokens == token_counter(<<msgs[1]>>)
             remaining_tokens ==
                 IF ~include_system THEN max_tokens
                 ELSE IF max_tokens - system_tokens < 0 THEN 0
                 ELSE max_tokens - system_tokens
             result == Reverse(first_max_tokens(Reverse(rest), remaining_tokens, "human"))
         IN  IF include_system THEN <<msgs[1]>> \o result ELSE result

trim_message_history(msgs, max_tokens) == last_max_tokens(msgs, max_tokens)

(***************************************************************************)
(* The histories trim_message_history is called on are those call_model    *)
(* sees: turns of a system and a human message, AI messages, the Tool      *)
(* messages answering an AI message's calls, a fallback message.           *)
(***************************************************************************)
TmNext(t, n, calls) == TokMessage(t, n, Len(tm_messages) + 1, calls)

TmGrow(new) ==
    /\ Len(tm_messages) + Len(new) <= MaxHistLen
    /\ tm_messages' = tm_messages \o new
    /\ tm_returned' = FALSE
    /\ UNCHANGED <<tm_max_tokens, tm_trimmed, tm_dropped, nonTrimVars>>

\* run_financial_agent 165-172: a turn starts with a system and a human message.
TmNewTurn ==
    /\ IF tm_messages = <<>> THEN TRUE
       ELSE /\ Last(tm_messages).type \in {"ai", "system"}
            /\ ~Last(tm_messages).has_calls
    /\ \E ns, nh \in MsgTokenChoices :
          TmGrow(<<TokMessage("system", ns, Len(tm_messages) + 1, FALSE),
                   TokMessage("human", nh, Len(tm_messages) + 2, FALSE)>>)
    /\ UNCHANGED tm_invocations

\* Variant: the node hands the trimmed list back with the response.
TmAppendAI_onto_trimmed ==
    /\ tm_messages # <<>>
    /\ Last(tm_messages).type \in {"human", "tool"}
    /\ tm_returned
    /\ Len(tm_messages) + 1 <= MaxHistLen
    /\ \E n \in MsgTokenChoices, calls \in BOOLEAN :
          tm_messages' = Append(tm_trimmed, TmNext("ai", n, calls))
    /\ tm_returned' = FALSE
    /\ tm_invocations' = tm_invocations + 1
    /\ UNCHANGED <<tm_max_tokens, tm_trimmed, tm_dropped, nonTrimVars>>

\* call_model 70-79, after the trim: the model is invoked on the trimmed list
\* and its response, with or without tool calls, is what the node returns.
TmAppendAI ==
    /\ tm_messages # <<>>
    /\ Last(tm_messages).type \in {"human", "tool"}
    /\ tm_returned
    /\ \E n \in MsgTokenChoices, calls \in BOOLEAN :
          TmGrow(<<TmNext("ai", n, calls)>>)
    /\ tm_invocations' = tm_invocations + 1

\* ToolNode: a Tool message answering a call of the latest AI message.
TmAppendTool ==
    /\ tm_messages # <<>>
    /\ \/ Last(tm_messages).type = "ai" /\ Last(tm_messages).has_calls
       \/ Last(tm_messages).type = "tool"
    /\ ~tm_returned
    /\ \E n \in MsgTokenChoices : TmGrow(<<TmNext("tool", n, FALSE)>>)
    /\ UNCHANGED tm_invocations

\* fallback_response 107-113: a SystemMessage after the latest AI message.
TmAppendFallback ==
    /\ tm_messages # <<>>
    /\ Last(tm_messages).type = "ai"
    /\ \E n \in MsgTokenChoices : TmGrow(<<TmNext("system", n, FALSE)>>)
    /\ UNCHANGED tm_invocations

\* call_model 67-68, at the agent node: the history ends with the human
\* message of the turn or with Tool messages.  trim_message_history 60-62
\* prints the number of messages dropped when there are any.
TmTrim ==
    /\ tm_messages # <<>>
    /\ Last(tm_messages).type \in {"human", "tool"}
    /\ ~tm_returned
    /\ \E b \in 0..MaxBudget :
          /\ tm_max_tokens' = b
          /\ tm_trimmed' = trim_message_history(tm_messages, b)
    /\ tm_dropped' = Len(tm_messages) - Len(tm_trimmed')
    /\ tm_returned' = TRUE
    /\ UNCHANGED <<tm_messages, tm_invocations, nonTrimVars>>

NextTrim ==
    \/ TmNewTurn
    \/ TmAppendAI
    \/ TmAppendTool
    \/ TmAppendFallback
    \/ TmTrim

SpecTrim == Init /\ [][NextTrim]_vars

\* The index of the latest human message of a history (0: none).
LatestHuman(h) ==
    MaxOf({0} \cup {i \in DOMAIN h : h[i].type = "human"})

\* C6: whatever the history and the budget, the list trim_message_history
\* returns holds the system instruction and the latest human message of its
\* input, also when the budget is smaller than what they need.
C6_TrimKeepsSystemAndLatestHuman ==
    tm_returned =>
        /\ tm_messages[1] \in RangeOf(tm_trimmed)
        /\ tm_messages[LatestHuman(tm_messages)] \in RangeOf(tm_trimmed)

\* C18: call_model invokes the model exactly once and appends exactly one
\* message, the model's; the messages already in the history stay as they are
\* and in order, also when the trim dropped messages from the model's input;
\* the history only ever grows at its end.
C18_CallModelAppendsOne ==
    /\ [][(tm_invocations' # tm_invocations \/ (tm_returned /\ ~tm_returned')) =>
            /\ tm_invocations' = tm_invocations + 1
            /\ Len(tm_messages') = Len(tm_messages) + 1
            /\ \A i \in DOMAIN tm_messages : tm_messages'[i] = tm_messages[i]
            /\ tm_messages'[Len(tm_messages')].type = "ai"]_vars
    /\ [][(~tm_returned /\ tm_returned') =>
            /\ tm_messages' = tm_messages
            /\ tm_invocations' = tm_invocations]_vars
    /\ [][/\ Len(tm_messages') >= Len(tm_messages)
          /\ \A i \in DOMAIN tm_messages : tm_messages'[i] = tm_messages[i]]_vars

\* After a call_model whose trim dropped messages from the model's input.
C18_Witness ==
    /\ tm_messages # <<>>
    /\ tm_messages[Len(tm_messages)].type = "ai"
    /\ ~tm_returned
    /\ tm_invocations >= 2
    /\ tm_dropped >= 2
    /\ Len(tm_trimmed) + tm_dropped = Len(tm_messages) - 1

\* A history begins coherently: a system instruction, then a human message.
BeginsCoherently(h) ==
    /\ Len(h) >= 2
    /\ h[1].type = "system"
    /\ h[2].type = "human"

WindowOf(input, output) ==
    IF output # <<>> /\ input[1].type = "system" /\ output[1] = input[1]
    THEN Tail(output)
    ELSE output

\* C20: apart from the retained system instruction, the output of
\* trim_message_history is a contiguous most-recent suffix of its input, of
\* whole messages in their original order, and the first message of that
\* window, when it has one, is human-authored.
C20_WindowIsSuffixFromHuman ==
    tm_returned =>
        LET window == WindowOf(tm_messages, tm_trimmed)
            n == Len(tm_messages)
        IN /\ Len(window) <= n
           /\ \A i \in DOMAIN window : window[i] = tm_messages[n - Len(window) + i]
           /\ window # <<>> => window[1].type = "human"

\* The cut falls inside the first turn: the AI message and the system message
\* before the second turn's human message fit the budget and are dropped.
C20_Witness ==
    /\ tm_returned
    /\ Len(tm_messages) = 5
    /\ tm_messages[3].type = "ai"
    /\ tm_messages[5].type = "human"
    /\ token_counter(SubSeq(tm_messages, 3, 5))
          <= tm_max_tokens - token_counter(<<tm_messages[1]>>)
    /\ tm_trimmed = <<tm_messages[1], tm_messages[5]>>

(***************************************************************************)
(* correct_period_parameter, backend/tools.py 69-123.  Strings are         *)
(* sequences of characters, so that lower() and strip() do what Python's   *)
(* do.                                                                     *)
(***************************************************************************)
UpperLetters == <<"A", "B", "C", "D", "E", "F", "G", "H", "I", "J", "K", "L", "M",
                  "N", "O", "P", "Q", "R", "S", "T", "U", "V", "W", "X", "Y", "Z">>
LowerLetters == <<"a", "b", "c", "d", "e", "f", "g", "h", "i", "j", "k", "l", "m",
                  "n", "o", "p", "q", "r", "s", "t", "u", "v", "w", "x", "y", "z">>
Whitespace == {" ", "\n", "\t"}

\* str.lower()
lower(str) ==
    [i \in 1..Len(str) |->
        IF \E k \in 1..26 : UpperLetters[k] = str[i]
        THEN LowerLetters[CHOOSE k \in 1..26 : UpperLetters[k] = str[i]]
        ELSE str[i]]

\* str.upper()
upper(str) ==
    [i \in 1..Len(str) |->
        IF \E k \in 1..26 : LowerLetters[k] = str[i]
        THEN UpperLetters[CHOOSE k \in 1..26 : LowerLetters[k] = str[i]]
        ELSE str[i]]

RECURSIVE lstrip(_)
lstrip(str) ==
    IF str # <<>> /\ Head(str) \in Whitespace THEN lstrip(Tail(str)) ELSE str

\* str.strip()
strip(str) == Reverse(lstrip(Reverse(lstrip(str))))

\* tools.py 78-91
period_mapping ==
    (<<"1", "w">> :> <<"5", "d">>) @@
    (<<"2", "w">> :> <<"1", "m", "o">>) @@
    (<<"3", "w">> :> <<"1", "m", "o">>) @@
    (<<"4", "w">> :> <<"1", "m", "o">>) @@
    (<<"w", "e", "e", "k">> :> <<"5", "d">>) @@
    (<<"m", "o", "n", "t", "h">> :> <<"1", "m", "o">>) @@
    (<<"y", "e", "a", "r">> :> <<"1", "y">>) @@
    (<<"3", "m">> :> <<"3", "m", "o">>) @@
    (<<"6", "m">> :> <<"6", "m", "o">>) @@
    (<<"2", "y">> :> <<"2", "y">>) @@
    (<<"5", "y">> :> <<"5", "y">>) @@
    (<<"1", "0", "y">> :> <<"1", "0", "y">>)

\* tools.py 118
valid_periods ==
    {<<"1", "d">>,
     <<"5", "d">>,
     <<"1", "m", "o">>,
     <<"3", "m", "o">>,
     <<"6", "m", "o">>,
     <<"1", "y">>,
     <<"2", "y">>,
     <<"5", "y">>,
     <<"1", "0", "y">>,
     <<"y", "t", "d">>,
     <<"m", "a", "x">>}

\* tools.py 123
default_period == <<"1", "m", "o">>

\* Variant: the table looked up with the argument as given.
correct_period_parameter_raw_lookup(invalid_period, llm_content) ==
    LET corrected == strip(llm_content)
    IN  IF invalid_period \in DOMAIN period_mapping
        THEN period_mapping[invalid_period]
        ELSE IF corrected \in valid_periods THEN corrected
        ELSE default_period

\* Variant: the model's answer returned without the check against valid_periods.
correct_period_parameter_unvalidated(invalid_period, llm_content) ==
    LET period_lower == strip(lower(invalid_period))
    IN  IF period_lower \in DOMAIN period_mapping
        THEN period_mapping[period_lower]
        ELSE strip(llm_content)

\* What the tool returns for an argument, llm_content being the content the
\* correction model answers with if it is asked.
correct_period_parameter(invalid_period, llm_content) ==
    LET period_lower == strip(lower(invalid_period))
        corrected == strip(llm_content)
    IN  IF period_lower \in DOMAIN period_mapping
        THEN period_mapping[period_lower]
        ELSE IF corrected \in valid_periods THEN corrected
        ELSE default_period

\* Whether the call reaches correction_llm.invoke (tools.py 95-113).
asks_correction_llm(invalid_period) ==
    strip(lower(invalid_period)) \notin DOMAIN period_mapping

\* Arguments the agent may pass and contents the correction model may answer.
PeriodInputs ==
    {<<"1", "w">>,
     <<" ", "1", "W", " ">>,
     <<"W", "e", "e", "k">>,
     <<"Y", "E", "A", "R">>,
     <<"3", "m">>,
     <<"6", "M", "\n">>,
     <<"1", "0", "y">>,
     <<"2", "w">>,
     <<"1", "m", "o">>,
     <<"m", "a", "x">>,
     <<"7", "d">>,
     <<"2", " ", "w", "e", "e", "k", "s">>,
     <<"q", "u", "a", "r", "t", "e", "r">>,
     <<>>,
     <<"1", " ", "W">>,
     <<"3", "m", "o">>,
     <<"1", "8", "m">>,
     <<"M", "O", "N", "T", "H", "S">>}

LlmContents ==
    {<<"1", "d">>,
     <<"5", "d">>,
     <<"1", "m", "o">>,
     <<"3", "m", "o">>,
     <<"6", "m", "o">>,
     <<"1", "y">>,
     <<"2", "y">>,
     <<"5", "y">>,
     <<"1", "0", "y">>,
     <<"y", "t", "d">>,
     <<"m", "a", "x">>,
     <<" ", "1", "y", "\n">>,
     <<"1", "Y">>,
     <<"1", " ", "m", "o", "n", "t", "h">>,
     <<>>,
     <<"3", "m", "o", ".">>,
     <<"M", "a", "x">>,
     <<"\t", "5", "d", " ">>,
     <<"T", "h", "e", " ", "c", "o", "r", "r", "e", "c", "t", "e", "d", " ", "p", "e", "r", "i", "o", "d", " ", "i", "s", " ", "1", "m", "o">>}

CorrectPeriod ==
    \E invalid_period \in PeriodInputs, llm_content \in LlmContents :
        /\ cp_invalid_period' = invalid_period
        /\ cp_llm_asked' = asks_correction_llm(invalid_period)
        /\ cp_llm_content' = IF asks_correction_llm(invalid_period)
                              THEN llm_content ELSE <<>>
        /\ cp_result' = correct_period_parameter(invalid_period, llm_content)
        /\ cp_returned' = TRUE
        /\ UNCHANGED nonPeriodVars

NextPeriod == CorrectPeriod

SpecPeriod == Init /\ [][NextPeriod]_vars

\* The fixed valid set of the period parameter.
FixedValidSet ==
    {<<"1", "d">>,
     <<"5", "d">>,
     <<"1", "m", "o">>,
     <<"3", "m", "o">>,
     <<"6", "m", "o">>,
     <<"1", "y">>,
     <<"2", "y">>,
     <<"5", "y">>,
     <<"1", "0", "y">>,
     <<"y", "t", "d">>,
     <<"m", "a", "x">>}

\* C7: whatever the argument and whatever the correction model answers,
\* correct_period_parameter returns a member of the fixed valid set.
C7_PeriodAlwaysValid ==
    cp_returned => cp_result \in FixedValidSet

\* The default tier answered: the model was asked and its answer was not valid.
C7_Witness ==
    /\ cp_returned
    /\ cp_llm_asked
    /\ cp_llm_content \notin FixedValidSet
    /\ cp_llm_content # <<>>
    /\ cp_result = <<"1", "m", "o">>

\* The alias table of the period correction: alias, valid period.
AliasTable ==
    {<<(<<"1", "w">>), (<<"5", "d">>)>>,
     <<(<<"2", "w">>), (<<"1", "m", "o">>)>>,
     <<(<<"3", "w">>), (<<"1", "m", "o">>)>>,
     <<(<<"4", "w">>), (<<"1", "m", "o">>)>>,
     <<(<<"w", "e", "e", "k">>), (<<"5", "d">>)>>,
     <<(<<"m", "o", "n", "t", "h">>), (<<"1", "m", "o">>)>>,
     <<(<<"y", "e", "a", "r">>), (<<"1", "y">>)>>,
     <<(<<"3", "m">>), (<<"3", "m", "o">>)>>,
     <<(<<"6", "m">>), (<<"6", "m", "o">>)>>,
     <<(<<"2", "y">>), (<<"2", "y">>)>>,
     <<(<<"5", "y">>), (<<"5", "y">>)>>,
     <<(<<"1", "0", "y">>), (<<"1", "0", "y">>)>>}

\* C24: for an argument found in the alias table after lowercasing and
\* stripping surrounding whitespace, correct_period_parameter returns the
\* tabled value and the correction model is not consulted; "1w" gives "5d",
\* "year" gives "1y" and "3m" gives "3mo".
C24_AliasAnsweredFromTable ==
    cp_returned =>
        /\ \A entry \in AliasTable :
              strip(lower(cp_invalid_period)) = entry[1]
                  => cp_result = entry[2] /\ ~cp_llm_asked /\ cp_llm_content = <<>>
        /\ cp_invalid_period = <<"1", "w">> => cp_result = <<"5", "d">>
        /\ cp_invalid_period = <<"Y", "E", "A", "R">> => cp_result = <<"1", "y">>
        /\ cp_invalid_period = <<"3", "m">> => cp_result = <<"3", "m", "o">>

\* An alias in capitals and surrounded by blanks, answered from the table.
C24_Witness ==
    /\ cp_returned
    /\ cp_invalid_period = <<" ", "1", "W", " ">>
    /\ cp_result = <<"5", "d">>
    /\ ~cp_llm_asked

(***************************************************************************)
(* get_company_client, backend/tools.py 14-21 (and agent.py 11-19): the    *)
(* module-level dictionary _company_cache and the check-then-create on it. *)
(* The statements of a call are separate steps: ToolNode runs the tool     *)
(* calls of one AI message on a thread pool, and nothing locks the cache.  *)
(***************************************************************************)
TickerArgs ==
    {<<"a", "a", "p", "l">>,
     <<"A", "A", "P", "L">>,
     <<"f">>,
     <<"F">>}

\* CompanyData(ticker): a new instance, distinct from every earlier one.
CompanyData(ticker) == [id |-> Len(clients_made) + 1, ticker_symbol |-> ticker]

\* Variant: the argument used as the key as it came.
cache_key_raw(ticker) == ticker

\* tools.py 18: ticker = ticker.upper()
cache_key(ticker) == upper(ticker)

CallsStarted ==
    Len(gcc_log) + Cardinality({th \in Threads : gcc_pc[th] # "idle"})

\* def get_company_client(ticker): ticker = ticker.upper()
GccEnter(th, ticker) ==
    /\ gcc_pc[th] = "idle"
    /\ CallsStarted < MaxRequests
    /\ gcc_arg' = [gcc_arg EXCEPT ![th] = ticker]
    /\ gcc_ticker' = [gcc_ticker EXCEPT ![th] = cache_key(ticker)]
    /\ gcc_pc' = [gcc_pc EXCEPT ![th] = "check"]
    /\ UNCHANGED <<company_cache, clients_made, gcc_new, gcc_log, nonCacheVars>>

\* A call entered while no other call is running.
GccCallAlone(th, ticker) ==
    /\ \A other \in Threads : gcc_pc[other] = "idle"
    /\ GccEnter(th, ticker)

\* A call entered on a pool thread, whatever the other threads do.
GccCallInPool(th, ticker) == GccEnter(th, ticker)

\* if ticker not in _company_cache:
GccCheck(th) ==
    /\ gcc_pc[th] = "check"
    /\ gcc_pc' = [gcc_pc EXCEPT ![th] =
                     IF gcc_ticker[th] \notin DOMAIN company_cache
                     THEN "construct" ELSE "return"]
    /\ UNCHANGED <<company_cache, clients_made, gcc_arg, gcc_ticker, gcc_new,
                   gcc_log, nonCacheVars>>

\* CompanyData(ticker), the right-hand side of the assignment
GccConstruct(th) ==
    /\ gcc_pc[th] = "construct"
    /\ gcc_new' = [gcc_new EXCEPT ![th] = CompanyData(gcc_ticker[th])]
    /\ clients_made' = Append(clients_made, CompanyData(gcc_ticker[th]))
    /\ gcc_pc' = [gcc_pc EXCEPT ![th] = "store"]
    /\ UNCHANGED <<company_cache, gcc_arg, gcc_ticker, gcc_log, nonCacheVars>>

\* _company_cache[ticker] = ...
GccStore(th) ==
    /\ gcc_pc[th] = "store"
    /\ company_cache' =
          [k \in DOMAIN company_cache \cup {gcc_ticker[th]} |->
              IF k = gcc_ticker[th] THEN gcc_new[th] ELSE company_cache[k]]
    /\ gcc_new' = [gcc_new EXCEPT ![th] = NoClient]
    /\ gcc_pc' = [gcc_pc EXCEPT ![th] = "return"]
    /\ UNCHANGED <<clients_made, gcc_arg, gcc_ticker, gcc_log, nonCacheVars>>

\* return _company_cache[ticker]
GccReturn(th) ==
    /\ gcc_pc[th] = "return"
    /\ gcc_log' = Append(gcc_log, [ticker |-> gcc_arg[th],
                                     client |-> company_cache[gcc_ticker[th]]])
    /\ gcc_pc' = [gcc_pc EXCEPT ![th] = "idle"]
    /\ UNCHANGED <<company_cache, clients_made, gcc_arg, gcc_ticker, gcc_new,
                   nonCacheVars>>

GccStep(th) ==
    \/ GccCheck(th)
    \/ GccConstruct(th)
    \/ GccStore(th)
    \/ GccReturn(th)

\* Sequential use: one call at a time.
NextCache ==
    \/ \E th \in Threads, ticker \in TickerArgs : GccCallAlone(th, ticker)
    \/ \E th \in Threads : GccStep(th)

SpecCache == Init /\ [][NextCache]_vars

\* Concurrent use: calls from the threads of the tool pool interleave.
NextCachePool ==
    \/ \E th \in Threads, ticker \in TickerArgs : GccCallInPool(th, ticker)
    \/ \E th \in Threads : GccStep(th)

SpecCachePool == Init /\ [][NextCachePool]_vars

\* Requests for the same uppercased ticker got the identical instance.
SameInstancePerTicker ==
    \A i, j \in DOMAIN gcc_log :
        upper(gcc_log[i].ticker) = upper(gcc_log[j].ticker)
            => gcc_log[i].client = gcc_log[j].client

\* The distinct uppercased tickers among the requests that returned.
TickersRequested == {upper(gcc_log[i].ticker) : i \in DOMAIN gcc_log}

\* C8: with one call at a time, requests whose tickers are equal after
\* uppercasing return the identical instance, the clients constructed are as
\* many as the distinct uppercased tickers requested, and no cache entry is
\* ever removed or replaced.
C8_SequentialRegistry ==
    /\ [](SameInstancePerTicker)
    /\ []((\A th \in Threads : gcc_pc[th] = "idle")
            => Len(clients_made) = Cardinality(TickersRequested))
    /\ [][\A k \in DOMAIN company_cache :
              /\ k \in DOMAIN company_cache'
              /\ company_cache'[k] = company_cache[k]]_vars

C8_Witness ==
    /\ Len(gcc_log) = 3
    /\ gcc_log[1].ticker = <<"a", "a", "p", "l">>
    /\ gcc_log[2].ticker = <<"F">>
    /\ gcc_log[3].ticker = <<"A", "A", "P", "L">>
    /\ gcc_log[3].client = gcc_log[1].client
    /\ Len(clients_made) = 2

\* C9: with concurrent calls, whatever the interleaving, at most one client is
\* ever constructed for an uppercased ticker and all callers get that instance.
C9_OneClientPerTickerInPool ==
    /\ \A i, j \in DOMAIN clients_made :
          clients_made[i].ticker_symbol = clients_made[j].ticker_symbol => i = j
    /\ SameInstancePerTicker

(***************************************************************************)
(* CompanyData.safe_get, backend.py 16-33.  What getattr(ticker, attr_name)*)
(* does on one attempt is yfinance's: it yields a value or raises an       *)
(* exception whose text is a sequence of words.                            *)
(***************************************************************************)
max_retries == 3

Value(v) == [kind |-> "value", data |-> v, text |-> <<>>]
Raise(words) == [kind |-> "raise", data |-> "none", text |-> words]

ErrorTexts ==
    {<<"429", "Client", "Error">>,
     <<"Too", "Many", "Requests">>,
     <<"Too", "Many", "Redirects">>,
     <<"Connection", "reset">>,
     <<"Read", "timed", "out">>}

\* info and financials are properties that fetch; history is a method, which
\* getattr only looks up.
YahooOutcomes(attr_name) ==
    IF attr_name = "history" THEN {Value("bound_method")}
    ELSE IF attr_name = "info"
    THEN {Value("None"), Value("empty_dict"), Value("dict")}
            \cup {Raise(t) : t \in ErrorTexts}
    ELSE {Value("None"), Value("empty_frame"), Value("frame")}
            \cup {Raise(t) : t \in ErrorTexts}

\* needle in str(e)
Contains(text, needle) ==
    \E i \in 1..Len(text) :
        /\ i + Len(needle) - 1 <= Len(text)
        /\ SubSeq(text, i, i + Len(needle) - 1) = needle

\* backend.py 24-25: the exception the try block ends with, <<>> when none.
raised_in_try(outcome) ==
    IF outcome.kind = "raise" THEN outcome.text
    ELSE IF outcome.data = "None" \/ outcome.data = "empty_dict"
         THEN <<"Empty", "response", "from", "Yahoo">>
    ELSE <<>>

\* Variant: any text with "Too Many" counts as rate limiting.
is_rate_limit_too_many(text) ==
    Contains(text, <<"429">>) \/ Contains(text, <<"Too", "Many">>)

\* backend.py 28
is_rate_limit(text) ==
    Contains(text, <<"429">>) \/ Contains(text, <<"Too", "Many", "Requests">>)

\* Variant: the loop runs once more than max_retries.
range_max_retries_plus_one == 0..max_retries

\* backend.py 21: range(max_retries)
range_max_retries == 0..(max_retries - 1)

(***************************************************************************)
(* The methods of CompanyData over safe_get, backend.py 35-60, as functions *)
(* of what safe_get returned, and the three data tools over them,          *)
(* backend/tools.py 40-67.  A method or tool ends with a value or with the  *)
(* exception it lets through.                                              *)
(***************************************************************************)
DataTools == {"get_company_info", "get_stock_history", "get_financial_statements"}

\* The attribute the method behind each tool asks safe_get for.
attr_of(tool) ==
    IF tool = "get_company_info" THEN "info"
    ELSE IF tool = "get_stock_history" THEN "history"
    ELSE "financials"

\* backend.py 35-38: whatever safe_get returned, None included.
get_financials(info) == Value(info)

\* backend.py 40-43: DataFrame.from_dict takes len() of its argument.
get_info(info) ==
    IF info = "None"
    THEN Raise(<<"object", "of", "type", "NoneType", "has", "no", "len()">>)
    ELSE Value("frame")

\* backend.py 57: self.company.history(period, interval), a fetch no try wraps.
HistoryOutcomes ==
    {Value("frame"), Value("empty_frame")} \cup {Raise(t) : t \in ErrorTexts}

\* Variant: the history request is made whatever safe_get returned.
get_ticker_data_unchecked(data, hist) == hist

\* backend.py 45-60: hist is what self.company.history does if it is called.
get_ticker_data(data, hist) ==
    IF data # "None" THEN hist
    ELSE Value("empty_frame")

\* .to_string() (after .tail(10) for the history) on what the method ended with.
to_string(result) ==
    IF result.kind = "raise" THEN result
    ELSE IF result.data = "None"
    THEN Raise(<<"NoneType", "object", "has", "no", "attribute", "to_string">>)
    ELSE Value("text")

\* tools.py 40-67: the body of the tool, given safe_get's result.
tool_body(tool, sg, hist) ==
    IF tool = "get_company_info" THEN to_string(get_info(sg))
    ELSE IF tool = "get_stock_history" THEN to_string(get_ticker_data(sg, hist))
    ELSE to_string(get_financials(sg))

\* A data tool is invoked; its method calls safe_get (get_info,
\* get_financials, get_ticker_data).
SgCall ==
    /\ sg_pc \in {"idle", "returned"}
    /\ tool_pc # "called"
    /\ \E tool \in DataTools :
          /\ tool_name' = tool
          /\ sg_attr_name' = attr_of(tool)
    /\ tool_pc' = "called"
    /\ tool_out' = "none"
    /\ sg_pc' = "loop"
    /\ sg_i' = 0
    /\ sg_log' = <<>>
    /\ sg_result' = "none"
    /\ UNCHANGED nonFetchVars

\* One iteration of the for loop, backend.py 21-32.
SgAttempt ==
    /\ sg_pc = "loop"
    /\ sg_i \in range_max_retries
    /\ \E outcome \in YahooOutcomes(sg_attr_name) :
          /\ sg_log' = Append(sg_log, outcome)
          /\ IF raised_in_try(outcome) = <<>>
             THEN \* return data
                  /\ sg_pc' = "returned"
                  /\ sg_result' = outcome.data
                  /\ UNCHANGED sg_i
             ELSE IF is_rate_limit(raised_in_try(outcome))
             THEN \* the except clause prints and the loop goes on
                  /\ sg_i' = sg_i + 1
                  /\ UNCHANGED <<sg_pc, sg_result>>
             ELSE \* break, then return None
                  /\ sg_pc' = "returned"
                  /\ sg_result' = "None"
                  /\ UNCHANGED sg_i
    /\ UNCHANGED <<sg_attr_name, dataToolVars, nonFetchVars>>

\* The loop ran out: return None, backend.py 33.
SgExhausted ==
    /\ sg_pc = "loop"
    /\ sg_i \notin range_max_retries
    /\ sg_pc' = "returned"
    /\ sg_result' = "None"
    /\ UNCHANGED <<sg_attr_name, sg_i, sg_log, dataToolVars, nonFetchVars>>

\* safe_get has returned: the rest of the method and of the tool.
ToolReturn ==
    /\ tool_pc = "called"
    /\ sg_pc = "returned"
    /\ \E hist \in HistoryOutcomes :
          tool_out' = tool_body(tool_name, sg_result, hist)
    /\ tool_pc' = IF tool_out'.kind = "raise" THEN "raised" ELSE "returned"
    /\ UNCHANGED <<sg_pc, sg_attr_name, sg_i, sg_log, sg_result, tool_name,
                   nonFetchVars>>

NextFetch ==
    \/ SgCall
    \/ SgAttempt
    \/ SgExhausted
    \/ ToolReturn

SpecFetch == Init /\ [][NextFetch]_vars

\* An attempt that ended in an error classified as upstream rate limiting.
RateLimitedAttempt(o) ==
    /\ o.kind = "raise"
    /\ o.text \in {<<"429", "Client", "Error">>, <<"Too", "Many", "Requests">>}

\* An attempt that yielded data.
SuccessfulAttempt(o) ==
    /\ o.kind = "value"
    /\ o.data \in {"dict", "frame", "empty_frame", "bound_method"}

\* C10: safe_get makes at most 3 attempts; rate-limit errors on attempts 1 and
\* 2 and data on attempt 3 give that data; 3 failed attempts give None, and
\* the call returns rather than raises.
C10_SafeGetThreeAttempts ==
    /\ Len(sg_log) <= 3
    /\ (/\ sg_pc # "loop"
        /\ Len(sg_log) = 3
        /\ RateLimitedAttempt(sg_log[1])
        /\ RateLimitedAttempt(sg_log[2])
        /\ SuccessfulAttempt(sg_log[3]))
            => (sg_pc = "returned" /\ sg_result = sg_log[3].data)
    /\ (/\ Len(sg_log) = 3
        /\ \A i \in 1..3 : ~SuccessfulAttempt(sg_log[i]))
            => (sg_pc = "loop" \/ (sg_pc = "returned" /\ sg_result = "None"))

C10_Witness ==
    /\ sg_pc = "returned"
    /\ Len(sg_log) = 3
    /\ RateLimitedAttempt(sg_log[1])
    /\ RateLimitedAttempt(sg_log[2])
    /\ sg_log[3] = Value("dict")
    /\ sg_result = "dict"

\* An attempt that yielded an empty response: a null value or an empty mapping.
EmptyAttempt(o) ==
    /\ o.kind = "value"
    /\ o.data \in {"None", "empty_dict"}

\* C11: an empty response (null or empty mapping) is treated like a transient
\* failure and forces a retry: after an empty first attempt a second attempt
\* is made, and when that one yields data the call returns that data.
C11_EmptyResponseRetried ==
    (/\ sg_pc = "returned"
     /\ Len(sg_log) >= 1
     /\ EmptyAttempt(sg_log[1]))
        => /\ Len(sg_log) >= 2
           /\ SuccessfulAttempt(sg_log[2]) => sg_result = sg_log[2].data

\* An attempt that ended in an error other than upstream rate limiting.
OtherErrorAttempt(o) ==
    /\ o.kind = "raise"
    /\ o.text \in {<<"Too", "Many", "Redirects">>, <<"Connection", "reset">>,
                   <<"Read", "timed", "out">>}

\* C21: an error that is not classified as upstream rate limiting aborts the
\* request at once, on whatever attempt it occurs: no attempt follows it and
\* the call returns None.
C21_OtherErrorAborts ==
    \A i \in DOMAIN sg_log :
        OtherErrorAttempt(sg_log[i])
            => /\ i = Len(sg_log)
               /\ sg_pc = "returned"
               /\ sg_result = "None"

\* Aborted on the second attempt, after a rate-limited first one.
C21_Witness ==
    /\ sg_pc = "returned"
    /\ Len(sg_log) = 2
    /\ RateLimitedAttempt(sg_log[1])
    /\ sg_log[2] = Raise(<<"Too", "Many", "Redirects">>)
    /\ sg_result = "None"

\* C12: whenever safe_get yields absent (None), the data tool that called it
\* still ends with a text result; no exception leaves the tool call.
C12_ToolsReturnTextOnAbsent ==
    (tool_pc \in {"returned", "raised"} /\ sg_result = "None")
        => (tool_pc = "returned" /\ tool_out = Value("text"))

(***************************************************************************)
(* truncate_tool_output, backend/tools.py 27-34.  A text is a sequence of   *)
(* characters; the encoding cuts it into tokens, each the longest entry of  *)
(* the vocabulary the rest of the text starts with, and decoding joins the  *)
(* tokens again.  The string returned is its text followed by its marker,   *)
(* the marker given by the two numbers the f-string prints.                 *)
(***************************************************************************)
TextAlphabet == {"a", "b", " "}

Vocabulary ==
    {<<c>> : c \in TextAlphabet} \cup {<<"a", "b">>, <<" ", "a">>, <<"b", "b">>}

RECURSIVE encode(_)
\* enc.encode(text)
encode(text) ==
    IF text = <<>> THEN <<>>
    ELSE LET fits == {n \in 1..Len(text) : SubSeq(text, 1, n) \in Vocabulary}
             n == MaxOf(fits)
         IN <<SubSeq(text, 1, n)>> \o encode(SubSeq(text, n + 1, Len(text)))

RECURSIVE decode(_)
\* enc.decode(tokens)
decode(tokens) ==
    IF tokens = <<>> THEN <<>>
    ELSE Head(tokens) \o decode(Tail(tokens))

\* Variant: the budget test is >= instead of >.
truncate_tool_output_ge(text, max_tokens) ==
    LET tokens == encode(text)
    IN IF Len(tokens) >= max_tokens
       THEN LET cut == SubSeq(tokens, 1, max_tokens)
            IN [text |-> decode(cut),
                marker |-> [from |-> Len(cut), to |-> max_tokens]]
       ELSE [text |-> text, marker |-> NoMarker]

\* tools.py 27-34.  tokens is reassigned before the marker is formatted.
truncate_tool_output(text, max_tokens) ==
    LET tokens == encode(text)
    IN IF Len(tokens) > max_tokens
       THEN LET cut == SubSeq(tokens, 1, max_tokens)
            IN [text |-> decode(cut),
                marker |-> [from |-> Len(cut), to |-> max_tokens]]
       ELSE [text |-> text, marker |-> NoMarker]

RECURSIVE TextsOfLen(_)
TextsOfLen(n) ==
    IF n = 0 THEN {<<>>}
    ELSE {Append(t, c) : t \in TextsOfLen(n - 1), c \in TextAlphabet}

\* The tool outputs and budgets of the calls (tools.py 45, 60, 67, 123).
ToolOutputs == UNION {TextsOfLen(n) : n \in 0..MaxTextLen}

TruncateCall ==
    /\ \E text \in ToolOutputs, max_tokens \in 1..MaxTokenBudget :
          /\ tt_text' = text
          /\ tt_max_tokens' = max_tokens
          /\ tt_out' = truncate_tool_output(text, max_tokens)
    /\ tt_returned' = TRUE
    /\ UNCHANGED nonTruncVars

NextTruncate == TruncateCall

SpecTruncate == Init /\ [][NextTruncate]_vars

\* The tokens of a text, in order.
TokensOf(text) == encode(text)

\* C13: a tool output of more than B tokens comes back as its first B tokens,
\* exactly B of them, followed by a truncation marker; one of at most B tokens
\* comes back identical to the input.
C13_TruncateToBudget ==
    tt_returned =>
        IF Len(TokensOf(tt_text)) > tt_max_tokens
        THEN /\ LET first == [i \in 1..tt_max_tokens |-> TokensOf(tt_text)[i]]
                IN /\ Len(first) = tt_max_tokens
                   /\ tt_out.text = decode(first)
             /\ tt_out.marker # NoMarker
        ELSE tt_out = [text |-> tt_text, marker |-> NoMarker]

\* C23: when truncate_tool_output truncates, its marker states the token count
\* of the input, as it was before truncation, and the truncated count, the
\* budget; a truncation always has its marker.
C23_MarkerStatesOriginalSize ==
    (tt_returned /\ Len(TokensOf(tt_text)) > tt_max_tokens)
        => /\ tt_out.marker # NoMarker
           /\ tt_out.marker.from = Len(TokensOf(tt_text))
           /\ tt_out.marker.to = tt_max_tokens

C13_Witness ==
    /\ tt_returned
    /\ tt_text = <<"a", "b", " ", "a">>
    /\ tt_max_tokens = 1
    /\ tt_out.text = <<"a", "b">>
    /\ tt_out.marker # NoMarker

(***************************************************************************)
(* The checkpoint database: SqliteSaver on checkpoints.db, agent.py 147-152,*)
(* written by the turns of run_financial_agent (156-172) and cleared by     *)
(* clear_thread_checkpoints, backend/database.py 105-125.  A row is a       *)
(* checkpoint of one thread; the thread's history is that of its latest row.*)
(***************************************************************************)
ThreadIds == {"default", "test-session"}

RowsOf(rows, thread_id) == {r \in rows : r.thread_id = thread_id}

\* What a turn on the thread loads: the messages of its latest checkpoint.
load_history(table, rows, thread_id) ==
    IF ~table \/ RowsOf(rows, thread_id) = {} THEN <<>>
    ELSE LET latest == CHOOSE r \in RowsOf(rows, thread_id) :
                           \A q \in RowsOf(rows, thread_id) :
                               q.checkpoint_id <= r.checkpoint_id
         IN latest.messages

\* The messages one turn adds: an answer at once, or after one tool call.
TurnMessages ==
    {<<SystemMessage(SystemPrompt), HumanMessage(UserQuery), AIMessage(<<>>)>>,
     <<SystemMessage(SystemPrompt), HumanMessage(UserQuery), AIMessage(<<1>>),
       ToolMessage(1), AIMessage(<<>>)>>}

\* run_financial_agent 165-172 on one thread, no other call running: the
\* saver creates its table if need be, and the history loaded plus the
\* messages of the turn becomes the thread's latest checkpoint.
RunTurnOnThread(thread_id) ==
    /\ store_ops < MaxStoreOps
    /\ \E new \in TurnMessages :
          ckpt_rows' = ckpt_rows \cup
              {[thread_id |-> thread_id,
                checkpoint_id |-> store_ops + 1,
                messages |-> load_history(ckpt_table, ckpt_rows, thread_id) \o new]}
    /\ ckpt_table' = TRUE
    /\ store_ops' = store_ops + 1
    /\ UNCHANGED <<cl_thread_id, cl_raised, nonStoreVars>>

\* Variant: the DELETE without its WHERE clause.
delete_where_thread_id_all(table, rows, thread_id) ==
    IF table THEN [rows |-> {}, raised |-> FALSE]
    ELSE [rows |-> rows, raised |-> TRUE]

\* DELETE FROM checkpoints WHERE thread_id = ?: fails without the table.
delete_where_thread_id(table, rows, thread_id) ==
    IF table THEN [rows |-> rows \ RowsOf(rows, thread_id), raised |-> FALSE]
    ELSE [rows |-> rows, raised |-> TRUE]

\* database.py 105-125
clear_thread_checkpoints(thread_id) ==
    /\ store_ops < MaxStoreOps
    /\ cl_thread_id' = thread_id
    /\ IF ~ckpt_table
       THEN \* fetchone() is None: print, close, return
            /\ cl_raised' = FALSE
            /\ UNCHANGED ckpt_rows
       ELSE LET done == delete_where_thread_id(ckpt_table, ckpt_rows, thread_id)
            IN /\ ckpt_rows' = done.rows
               /\ cl_raised' = done.raised
    /\ store_ops' = store_ops + 1
    /\ UNCHANGED <<ckpt_table, nonStoreVars>>

NextStore ==
    \/ \E thread_id \in ThreadIds : RunTurnOnThread(thread_id)
    \/ \E thread_id \in ThreadIds : clear_thread_checkpoints(thread_id)

SpecStore == Init /\ [][NextStore]_vars

\* The history a later turn would find for the thread.
StoredHistory(table, rows, thread_id) ==
    IF table /\ \E r \in rows : r.thread_id = thread_id
    THEN (CHOOSE r \in rows :
              /\ r.thread_id = thread_id
              /\ \A q \in rows : q.thread_id = thread_id
                                    => q.checkpoint_id <= r.checkpoint_id).messages
    ELSE <<>>

\* A step that is a call of clear_thread_checkpoints.
ClearStep == store_ops' # store_ops /\ ckpt_rows' \subseteq ckpt_rows

\* C14: clear_thread_checkpoints(t) leaves no stored checkpoint of t, so that a
\* later load finds no history; it ends without an error also when t has no
\* checkpoint or the table does not exist, and then changes nothing; the
\* checkpoints of every other thread id stay as they were.
C14_ClearThreadOnly ==
    [][ClearStep =>
          /\ ~cl_raised'
          /\ StoredHistory(ckpt_table', ckpt_rows', cl_thread_id') = <<>>
          /\ \A r \in ckpt_rows' : r.thread_id # cl_thread_id'
          /\ \A t \in ThreadIds \ {cl_thread_id'} :
                /\ {r \in ckpt_rows' : r.thread_id = t}
                      = {r \in ckpt_rows : r.thread_id = t}
                /\ StoredHistory(ckpt_table', ckpt_rows', t)
                      = StoredHistory(ckpt_table, ckpt_rows, t)
          /\ (StoredHistory(ckpt_table, ckpt_rows, cl_thread_id') = <<>>)
                => (ckpt_rows' = ckpt_rows /\ ckpt_table' = ckpt_table)
    ]_vars

\* After a reset of one thread, with the history of the other thread kept.
C14_Witness ==
    /\ cl_thread_id = "test-session"
    /\ ~cl_raised
    /\ store_ops >= 3
    /\ StoredHistory(ckpt_table, ckpt_rows, "test-session") = <<>>
    /\ Len(StoredHistory(ckpt_table, ckpt_rows, "default")) > 3

(***************************************************************************)
(* The chat sessions of app.py.  start (48-57) gives a session the thread   *)
(* id user.identifier, so the sessions of one user share a thread.  The     *)
(* handler main (79-92) is a coroutine of the server's one event loop: it   *)
(* runs until it awaits, and it calls run_financial_agent as a plain        *)
(* function, so the loop runs nothing else until that call has returned.    *)
(* Inside the call, app.invoke (agent.py 169-172) loads the thread's        *)
(* checkpoint and later stores the history loaded plus the turn's messages. *)
(***************************************************************************)
\* app.py 53: sessions 1 and 2 are of one user, the others of another.
thread_id_of(s) == IF s <= 2 THEN "default" ELSE "test-session"

\* Variant: main awaits run_financial_agent on a worker thread.
holds_loop_in_worker(s) == 0

\* app.py 87: the call is made on the loop's thread, which it holds.
holds_loop(s) == s

MessagesInHand == Cardinality({s \in Sessions : h_pc[s] # "idle"})

\* A message of the session's user arrives: main is scheduled on the loop.
OnMessage(s) ==
    /\ h_pc[s] = "idle"
    /\ store_ops + MessagesInHand < MaxStoreOps
    /\ h_pc' = [h_pc EXCEPT ![s] = "scheduled"]
    /\ UNCHANGED <<loop_running, h_loaded, storeVars, nonSessionVars>>

\* app.py 81-86: main runs up to `await msg.send()`.
MainSend(s) ==
    /\ h_pc[s] = "scheduled"
    /\ loop_running = 0
    /\ h_pc' = [h_pc EXCEPT ![s] = "sent"]
    /\ UNCHANGED <<loop_running, h_loaded, storeVars, nonSessionVars>>

\* app.py 87, agent.py 169: main is resumed and calls run_financial_agent;
\* app.invoke loads the thread's history.
MainInvoke(s) ==
    /\ h_pc[s] = "sent"
    /\ loop_running = 0
    /\ h_loaded' = [h_loaded EXCEPT
                      ![s] = load_history(ckpt_table, ckpt_rows, thread_id_of(s))]
    /\ h_pc' = [h_pc EXCEPT ![s] = "turn"]
    /\ loop_running' = holds_loop(s)
    /\ UNCHANGED <<storeVars, nonSessionVars>>

\* agent.py 169-206, app.py 94-95: the turn ends, its history is stored,
\* run_financial_agent returns and main goes on to `await msg.update()`.
MainUpdate(s) ==
    /\ h_pc[s] = "turn"
    /\ loop_running = holds_loop(s)
    /\ \E new \in TurnMessages :
          ckpt_rows' = ckpt_rows \cup
              {[thread_id |-> thread_id_of(s),
                checkpoint_id |-> store_ops + 1,
                messages |-> h_loaded[s] \o new]}
    /\ ckpt_table' = TRUE
    /\ store_ops' = store_ops + 1
    /\ h_pc' = [h_pc EXCEPT ![s] = "updating"]
    /\ loop_running' = 0
    /\ UNCHANGED <<h_loaded, cl_thread_id, cl_raised, nonSessionVars>>

\* app.py 96-115: the statistics message is sent and main ends.
MainEnd(s) ==
    /\ h_pc[s] = "updating"
    /\ loop_running = 0
    /\ h_pc' = [h_pc EXCEPT ![s] = "idle"]
    /\ UNCHANGED <<loop_running, h_loaded, storeVars, nonSessionVars>>

NextSessions ==
    \E s \in Sessions :
        \/ OnMessage(s)
        \/ MainSend(s)
        \/ MainInvoke(s)
        \/ MainUpdate(s)
        \/ MainEnd(s)

SpecSessions == Init /\ [][NextSessions]_vars

\* The turns in progress on a thread: loaded, not yet stored.
TurnsInProgress(t) == {s \in Sessions : thread_id_of(s) = t /\ h_pc[s] = "turn"}

\* The turns stored on a thread, and the user messages its history holds.
TurnsStored(t) == Cardinality({r \in ckpt_rows : r.thread_id = t})

UserMessages(h) == Cardinality({i \in DOMAIN h : h[i].type = "human"})

\* C15: the turns of one thread id run strictly one after the other: never are
\* two of them in progress at once, so no turn overwrites the history with one
\* that lacks the messages another turn stored: the stored history of a thread
\* holds the user message of every turn stored on it.
C15_TurnsOfAThreadSequential ==
    \A t \in ThreadIds :
        /\ Cardinality(TurnsInProgress(t)) <= 1
        /\ UserMessages(StoredHistory(ckpt_table, ckpt_rows, t)) = TurnsStored(t)

\* Two sessions of one thread both have a message in hand, one inside its
\* turn, after an earlier turn of the thread was stored.
C15_Witness ==
    /\ h_pc[1] = "turn"
    /\ h_pc[2] = "sent"
    /\ thread_id_of(1) = thread_id_of(2)
    /\ TurnsStored(thread_id_of(1)) >= 1
    /\ h_loaded[1] # <<>>

(***************************************************************************)
(* CompanyData.get_ticker_data, backend.py 45-60, called with a period and  *)
(* an interval.  What safe_get returned to it is an input here, as in       *)
(* tests/unit_test.py 46-53, which patches safe_get to return None: the     *)
(* unpatched safe_get returns the bound method history.                     *)
(***************************************************************************)
Intervals == {"1d", "1wk", "1mo"}

\* backend.py 56-57: the history requests the call makes.
history_calls(data, period, interval) ==
    IF data # "None" THEN <<[period |-> period, interval |-> interval]>>
    ELSE <<>>

GetTickerData ==
    /\ \E period \in valid_periods, interval \in Intervals,
          data \in {"None", "bound_method"}, hist \in HistoryOutcomes :
          /\ td_period' = period
          /\ td_interval' = interval
          /\ td_data' = data
          /\ td_history_calls' = history_calls(data, period, interval)
          /\ td_out' = get_ticker_data(data, hist)
    /\ td_returned' = TRUE
    /\ UNCHANGED nonTickerDataVars

NextTickerData == GetTickerData

SpecTickerData == Init /\ [][NextTickerData]_vars

\* C22: when safe_get yields None for the history attribute, get_ticker_data
\* returns an empty DataFrame, raises nothing and makes no history request
\* for the period and interval.
C22_EmptyFrameOnAbsentHistory ==
    (td_returned /\ td_data = "None")
        => /\ td_out.kind = "value"
           /\ td_out.data = "empty_frame"
           /\ td_history_calls = <<>>

C22_Witness ==
    /\ td_returned
    /\ td_data = "None"
    /\ td_period = <<"1", "m", "o">>
    /\ td_interval = "1d"
    /\ td_out = Value("empty_frame")

(***************************************************************************)
(* extract_stock_mentions, backend/tools.py 129-208.  result is what the   *)
(* extraction model answers with (StockMentions: two lists of strings);    *)
(* strings are sequences of characters, so that upper() does what Python's *)
(* does.  CompanyData.search_stock_symbol is imported from                 *)
(* backend/stock_fetcher: it answers with found, symbol and name.          *)
(***************************************************************************)
\* Python's None where a string is expected.
NoneSymbol == <<"None">>

\* tools.py 195
MaxResolved == 20

\* The symbol a company name is listed under.
listed_symbol(company) ==
    IF upper(company) \in {<<"A", "P", "P", "L", "E">>, <<"A", "A", "P", "L">>}
    THEN <<"A", "A", "P", "L">>
    ELSE <<"T", "S", "L", "A">>

\* What search_stock_symbol answers for a company name, listed being the names
\* the search finds.
search_stock_symbol(company, listed) ==
    IF company \in listed
    THEN [kind |-> "dict", found |-> TRUE, symbol |-> listed_symbol(company),
          name |-> company \o <<" ", "I", "n", "c">>]
    ELSE [kind |-> "dict", found |-> FALSE, symbol |-> NoneSymbol, name |-> <<>>]

\* tools.py 165-169: the entry of a ticker the model extracted.
ticker_entry(symbol) ==
    [symbol |-> symbol, name |-> <<>>, source |-> "ticker_mentioned",
     search_result |-> [kind |-> "None"]]

\* tools.py 179-192: the entry of a searched company name.
searched_entry(company, search_result) ==
    IF search_result.found
    THEN [symbol |-> search_result.symbol, name |-> search_result.name,
          source |-> "company_name_searched", search_result |-> search_result]
    ELSE [symbol |-> NoneSymbol, name |-> company,
          source |-> "company_name_searched", search_result |-> search_result]

\* tools.py 174: any(r["symbol"].upper() == company.upper() for r in resolved).
\* any() takes the entries in order and stops at the first match; upper() of
\* a None symbol raises AttributeError.
already_found(resolved, company) ==
    LET stops == {i \in DOMAIN resolved :
                     \/ resolved[i].symbol = NoneSymbol
                     \/ upper(resolved[i].symbol) = upper(company)}
    IN  IF stops = {} THEN "False"
        ELSE LET i == CHOOSE k \in stops : \A j \in stops : k <= j
             IN  IF resolved[i].symbol = NoneSymbol THEN "AttributeError" ELSE "True"

\* tools.py 172-192: the loop over result.companies, from entry k on.
RECURSIVE search_companies(_, _, _, _, _)
search_companies(companies, k, listed, resolved, searched) ==
    IF k > Len(companies)
    THEN [kind |-> "value", resolved |-> resolved, searched |-> searched]
    ELSE LET found == already_found(resolved, companies[k])
         IN  IF found = "AttributeError"
             THEN [kind |-> "raise", error |-> "AttributeError",
                   resolved |-> resolved, searched |-> searched]
             ELSE IF found = "True"
             THEN search_companies(companies, k + 1, listed, resolved, searched)
             ELSE search_companies(companies, k + 1, listed,
                      Append(resolved,
                             searched_entry(companies[k],
                                            search_stock_symbol(companies[k], listed))),
                      Append(searched, companies[k]))

\* Variant: the whole list returned.
resolved_limited_all(resolved) == resolved

\* tools.py 195
resolved_limited(resolved) ==
    IF Len(resolved) > MaxResolved THEN SubSeq(resolved, 1, MaxResolved) ELSE resolved

\* Python's truth value of r['symbol']: None and the empty string are false.
truthy(symbol) == symbol # NoneSymbol /\ symbol # <<>>

\* tools.py 203-207: the numbers the summary string is formatted from.
summary(symbols, companies, limited) ==
    [tickers |-> Len(symbols),
     company_names |-> Len(companies),
     resolved_to_valid |-> Cardinality({i \in DOMAIN limited : truthy(limited[i].symbol)}),
     limited_to |-> Len(limited)]

\* tools.py 162-208
extract_stock_mentions(symbols, companies, listed) ==
    LET tickers == [i \in DOMAIN symbols |-> ticker_entry(symbols[i])]
        loop == search_companies(companies, 1, listed, tickers, <<>>)
    IN  IF loop.kind = "raise"
        THEN [kind |-> "raise", error |-> loop.error, searched |-> loop.searched]
        ELSE [kind |-> "value",
              mentions |-> [symbols |-> symbols, companies |-> companies],
              resolved |-> resolved_limited(loop.resolved),
              all_resolved |-> loop.resolved,
              searched |-> loop.searched,
              summary |-> summary(symbols, companies, resolved_limited(loop.resolved))]

\* What the extraction model may answer with: every short list, and long
\* lists that repeat the same names.
ExtractedTickers == {<<"A", "A", "P", "L">>, <<"t", "s", "l", "a">>, <<>>}
ExtractedNames == {<<"A", "p", "p", "l", "e">>, <<"a", "a", "p", "l">>,
                   <<"T", "e", "s", "l", "a">>}

ShortLists(S) == {<<>>} \cup {<<x>> : x \in S} \cup {<<x, y>> : x \in S, y \in S}

LongLists(S) ==
    {[i \in 1..n |-> IF i % 2 = 1 THEN x ELSE y] :
        n \in MaxResolved..MaxMentions, x \in S, y \in S}

\* One call of the tool; a call leaves nothing behind for a later one.
ExtractCall ==
    /\ ~ex_returned
    /\ \E symbols \in ShortLists(ExtractedTickers) \cup LongLists(ExtractedTickers),
          companies \in ShortLists(ExtractedNames) \cup LongLists(ExtractedNames),
          listed \in SUBSET ExtractedNames :
          /\ ex_symbols' = symbols
          /\ ex_companies' = companies
          /\ ex_listed' = listed
          /\ ex_out' = extract_stock_mentions(symbols, companies, listed)
    /\ ex_returned' = TRUE
    /\ UNCHANGED nonExtractVars

NextExtract == ExtractCall

SpecExtract == Init /\ [][NextExtract]_vars

\* The company names a lookup is due for: those that equal, letter case
\* apart, no ticker the model extracted.
NotMatchedToTicker ==
    SelectSeq(ex_companies,
              LAMBDA c : \A i \in DOMAIN ex_symbols : upper(ex_symbols[i]) # upper(c))

\* C25: for every list of symbols and companies the model returns, the call
\* returns, a symbol search is attempted for every extracted company name not
\* matched to an extracted ticker, and each yields one record with the symbol
\* or null, a name and the source company_name_searched; also when an earlier
\* company name was left unresolved with a null symbol.
C25_EveryUnmatchedCompanySearched ==
    ex_returned =>
        /\ ex_out.kind = "value"
        /\ ex_out.searched = NotMatchedToTicker
        /\ Len(ex_out.all_resolved) = Len(ex_symbols) + Len(NotMatchedToTicker)
        /\ \A k \in DOMAIN NotMatchedToTicker :
              LET r == ex_out.all_resolved[Len(ex_symbols) + k]
              IN  /\ r.source = "company_name_searched"
                  /\ r.name # <<>>
                  /\ r.symbol = NoneSymbol <=> NotMatchedToTicker[k] \notin ex_listed

\* Whether the entries of a are entries of b, in the order of b.
RECURSIVE IsSubsequence(_, _)
IsSubsequence(a, b) ==
    IF a = <<>> THEN TRUE
    ELSE IF b = <<>> THEN FALSE
    ELSE IF Head(a) = Head(b) THEN IsSubsequence(Tail(a), Tail(b))
    ELSE IsSubsequence(a, Tail(b))

\* The first entries of a list, at most n of them.
FirstEntries(list, n) == SubSeq(list, 1, IF Len(list) < n THEN Len(list) ELSE n)

\* The returned list is the first twenty resolution records, tickers before
\* searched company names, each kind in the order of extraction.
FirstTwentyInOrder ==
    /\ Len(ex_out.resolved) <= 20
    /\ ex_out.resolved = FirstEntries(ex_out.all_resolved, 20)
    /\ \A i \in DOMAIN ex_out.all_resolved :
          IF i <= Len(ex_symbols)
          THEN /\ ex_out.all_resolved[i].source = "ticker_mentioned"
               /\ ex_out.all_resolved[i].symbol = ex_symbols[i]
          ELSE /\ ex_out.all_resolved[i].source = "company_name_searched"
               /\ ex_out.all_resolved[i].search_result
                     = search_stock_symbol(ex_out.searched[i - Len(ex_symbols)], ex_listed)
    /\ IsSubsequence(ex_out.searched, ex_companies)

\* The entries of a list whose symbol is not null.
WithSymbol(list) == {i \in DOMAIN list : list[i].symbol # NoneSymbol}

\* The entries of a list whose symbol is neither null nor the empty string.
WithNonEmptySymbol(list) == {i \in WithSymbol(list) : list[i].symbol # <<>>}

\* C26 as stated: the returned list has at most 20 entries, it is the first 20
\* resolution records in extraction order, tickers before searched company
\* names, and the summary reports the number of returned entries with a
\* non-null symbol and the number of returned entries.
C26_CapAndSummaryNonNull ==
    (ex_returned /\ ex_out.kind = "value") =>
        /\ FirstTwentyInOrder
        /\ ex_out.summary.resolved_to_valid = Cardinality(WithSymbol(ex_out.resolved))
        /\ ex_out.summary.limited_to = Len(ex_out.resolved)

\* C26, amended: the returned list has at most 20 entries, it is the first 20
\* resolution records in extraction order, tickers before searched company
\* names, and the summary reports the number of returned entries whose symbol
\* is neither null nor the empty string, and the number of returned entries.
C26_CapAndSummaryNonEmpty ==
    (ex_returned /\ ex_out.kind = "value") =>
        /\ FirstTwentyInOrder
        /\ ex_out.summary.resolved_to_valid
              = Cardinality(WithNonEmptySymbol(ex_out.resolved))
        /\ ex_out.summary.limited_to = Len(ex_out.resolved)

\* Two tickers, one of them the empty string, and twenty searched company
\* names, all resolved: twenty entries are returned of twenty-two.
C26_Witness ==
    /\ ex_returned
    /\ ex_out.kind = "value"
    /\ Len(ex_symbols) = 2
    /\ ex_symbols[1] = <<>>
    /\ Len(ex_out.all_resolved) = 22
    /\ ex_out.summary.resolved_to_valid = 19
    /\ Len(ex_out.resolved) = 20
    /\ ex_out.resolved[20].source = "company_name_searched"
    /\ ex_out.summary.limited_to = 20
    /\ ex_out.summary.resolved_to_valid < 20

====
